---------------------------- MODULE Spec2Model ----------------------------
(***************************************************************************)
(* A model of app.py of the Streamlit weather dashboard: the condition    *)
(* classifier condition_key, the daily aggregator group_forecast_daily    *)
(* (as one call, and step by step for concurrent calls), and the script's *)
(* main logic (the two HTTP requests and what is rendered after them).    *)
(*                                                                         *)
(* Text is a sequence of one-character strings, so that lower-casing and  *)
(* substring search are computed and not assumed.  A date is the number   *)
(* of days since 1970-01-01, which orders and identifies calendar dates   *)
(* exactly as datetime.date does.  A mean is an exact fraction in lowest  *)
(* terms; the rounding of Python's float division is not modelled.        *)
(***************************************************************************)
EXTENDS Integers, Sequences, FiniteSets, TLC

VARIABLES
    weather_main,   \* condition_key: the argument, [isNone, s]
    ck_pc,          \* condition_key: "ready" | "returned"
    ck_ret,         \* condition_key: the value returned
    forecast_json,  \* group_forecast_daily: the argument, [hasList, list, tz]
    days,           \* group_forecast_daily: the local dict days, in insertion order
    out,            \* group_forecast_daily: the local list out, before out[:5]
    raised,         \* group_forecast_daily: the exception the last call raised, or "none"
    returned,       \* the values returned by the successive calls, oldest first
    ttask,          \* concurrent calls: the function each thread calls
    tpc,            \* concurrent calls: each thread's position
    ti,             \* concurrent calls: each thread's loop index
    tdays,          \* concurrent calls: the days dict each slot holds
    tkeys,          \* concurrent calls: the sorted dates each thread iterates over
    tout,           \* concurrent calls: each thread's out list
    tret,           \* concurrent calls: each thread's return value
    upc,            \* script: position of the script run
    go,             \* script: st.button("Show weather")
    OWM_API_KEY,    \* script: os.getenv("OWM_API_KEY"), [isNone, s]
    ok,             \* script: the flag ok, or "unset"
    requests,       \* script: the HTTP requests issued so far, in order
    responses,      \* script: whether each request will succeed, [weather_ok, forecast_ok]
    fetched,        \* script: which of the locals current and forecast are bound
    rendered        \* script: what st.* has put on the page, in order

vars == <<weather_main, ck_pc, ck_ret, forecast_json, days, out, raised, returned,
          ttask, tpc, ti, tdays, tkeys, tout, tret,
          upc, go, OWM_API_KEY, ok, requests, responses, fetched, rendered>>

ckVars   == <<weather_main, ck_pc, ck_ret>>
aggVars  == <<forecast_json, days, out, raised, returned>>
concVars == <<ttask, tpc, ti, tdays, tkeys, tout, tret>>
uiVars   == <<upc, go, OWM_API_KEY, ok, requests, responses, fetched, rendered>>

-----------------------------------------------------------------------------
(* Text *)

UpperChars == <<"A","B","C","D","E","F","G","H","I","J","K","L","M",
                "N","O","P","Q","R","S","T","U","V","W","X","Y","Z">>
LowerChars == <<"a","b","c","d","e","f","g","h","i","j","k","l","m",
                "n","o","p","q","r","s","t","u","v","w","x","y","z">>

\* str.lower() on one character
lower_char(c) ==
    IF \E i \in 1..Len(UpperChars) : UpperChars[i] = c
    THEN LowerChars[CHOOSE i \in 1..Len(UpperChars) : UpperChars[i] = c]
    ELSE c

\* str.lower()
lower(s) == [i \in 1..Len(s) |-> lower_char(s[i])]

\* the operator `x in m` on strings: x occurs in m as a contiguous substring
contains(m, x) ==
    \E i \in 0..(Len(m) - Len(x)) : SubSeq(m, i + 1, i + Len(x)) = x

NoneStr == [isNone |-> TRUE, s |-> <<>>]
Str(s)  == [isNone |-> FALSE, s |-> s]

\* `v or ""`: None and the empty string are both falsy
or_empty(v) == IF v.isNone \/ v.s = <<>> THEN <<>> ELSE v.s

\* `not v` on an optional string
falsy(v) == v.isNone \/ v.s = <<>>

kw_thunder == <<"t","h","u","n","d","e","r">>
kw_drizzle == <<"d","r","i","z","z","l","e">>
kw_rain    == <<"r","a","i","n">>
kw_snow    == <<"s","n","o","w">>
kw_cloud   == <<"c","l","o","u","d">>
kw_mist    == <<"m","i","s","t">>
kw_fog     == <<"f","o","g">>
kw_haze    == <<"h","a","z","e">>
kw_smoke   == <<"s","m","o","k","e">>
kw_clear   == <<"c","l","e","a","r">>

-----------------------------------------------------------------------------
(* condition_key *)

\* a variant that tests "cloud" before "rain"
condition_key_cloud_first(w) ==
    LET m == lower(or_empty(w)) IN
    IF contains(m, kw_thunder) THEN "thunderstorm"
    ELSE IF contains(m, kw_drizzle) THEN "drizzle"
    ELSE IF contains(m, kw_cloud) THEN "clouds"
    ELSE IF contains(m, kw_rain) THEN "rain"
    ELSE IF contains(m, kw_snow) THEN "snow"
    ELSE IF \E x \in {kw_mist, kw_fog, kw_haze, kw_smoke} : contains(m, x) THEN "mist"
    ELSE IF contains(m, kw_clear) THEN "clear"
    ELSE "other"

\* a variant that calls .lower() on the argument itself, which None does not have
condition_key_no_default(w) ==
    IF w.isNone THEN "AttributeError"
    ELSE LET m == lower(w.s) IN
    IF contains(m, kw_thunder) THEN "thunderstorm"
    ELSE IF contains(m, kw_drizzle) THEN "drizzle"
    ELSE IF contains(m, kw_rain) THEN "rain"
    ELSE IF contains(m, kw_snow) THEN "snow"
    ELSE IF contains(m, kw_cloud) THEN "clouds"
    ELSE IF \E x \in {kw_mist, kw_fog, kw_haze, kw_smoke} : contains(m, x) THEN "mist"
    ELSE IF contains(m, kw_clear) THEN "clear"
    ELSE "other"

condition_key(w) ==
    LET m == lower(or_empty(w)) IN
    IF contains(m, kw_thunder) THEN "thunderstorm"
    ELSE IF contains(m, kw_drizzle) THEN "drizzle"
    ELSE IF contains(m, kw_rain) THEN "rain"
    ELSE IF contains(m, kw_snow) THEN "snow"
    ELSE IF contains(m, kw_cloud) THEN "clouds"
    ELSE IF \E x \in {kw_mist, kw_fog, kw_haze, kw_smoke} : contains(m, x) THEN "mist"
    ELSE IF contains(m, kw_clear) THEN "clear"
    ELSE "other"

\* the pieces labels are made of: provider words, in mixed case, and word parts
Fragments ==
    { <<"T","h","u","n","d","e","r">>, <<"D","r","i","z","z","l","e">>,
      <<"R","a","i","n">>, <<"S","n","o","w">>, <<"c","l","o","u","d","y">>,
      <<"M","i","s","t">>, <<"F","o","g">>, <<"H","A","Z","E">>,
      <<"S","m","o","k","e">>, <<"C","l","e","a","r">>, <<" ">>,
      <<"r","a">>, <<"i","n">>, <<"S","q","u","a","l","l">> }

MaxFrags == 2

RECURSIVE Concat(_)
Concat(ss) == IF ss = <<>> THEN <<>> ELSE Head(ss) \o Concat(Tail(ss))

Labels ==
    { Concat(fs) : fs \in UNION { [1..n -> Fragments] : n \in 0..MaxFrags } }

LabelArgs == {NoneStr} \cup { Str(l) : l \in Labels }

IdleAgg ==
    /\ forecast_json = [hasList |-> FALSE, list |-> <<>>, hasTimezone |-> FALSE, timezone |-> 0]
    /\ days = <<>> /\ out = <<>> /\ raised = "none" /\ returned = <<>>

IdleConc ==
    /\ ttask = <<>> /\ tpc = <<>> /\ ti = <<>> /\ tdays = <<>> /\ tkeys = <<>>
    /\ tout = <<>> /\ tret = <<>>

IdleUi ==
    /\ upc = "idle" /\ go = FALSE /\ OWM_API_KEY = NoneStr /\ ok = "unset"
    /\ requests = <<>> /\ responses = <<>> /\ fetched = {} /\ rendered = <<>>

IdleCk == weather_main = NoneStr /\ ck_pc = "idle" /\ ck_ret = "none"

InitClassify ==
    /\ weather_main \in LabelArgs
    /\ ck_pc = "ready"
    /\ ck_ret = "none"
    /\ IdleAgg /\ IdleConc /\ IdleUi

\* one call of condition_key(weather_main)
CallConditionKey ==
    /\ ck_pc = "ready"
    /\ ck_ret' = condition_key(weather_main)
    /\ ck_pc' = "returned"
    /\ UNCHANGED <<weather_main, aggVars, concVars, uiVars>>

NextClassify == CallConditionKey

SpecClassify == InitClassify /\ [][NextClassify]_vars

ThemeCategory ==
    {"clear", "clouds", "rain", "drizzle", "snow", "thunderstorm", "mist", "other"}

\* the rules of the classifier in their priority order: <<words, category>>
Rules ==
    << <<{kw_thunder}, "thunderstorm">>, <<{kw_drizzle}, "drizzle">>,
       <<{kw_rain}, "rain">>, <<{kw_snow}, "snow">>, <<{kw_cloud}, "clouds">>,
       <<{kw_mist, kw_fog, kw_haze, kw_smoke}, "mist">>, <<{kw_clear}, "clear">> >>

RuleMatches(i, m) == \E x \in Rules[i][1] : contains(m, x)

\* C1: the value returned is the category of the first rule, in the order
\* thunder, drizzle, rain, snow, cloud, mist/fog/haze/smoke, clear, that has a
\* word occurring in the lower-cased label, and other when no rule has one; so
\* rain without thunder and drizzle gives rain whatever else occurs, and thunder
\* gives thunderstorm whatever else occurs.
C1_FirstMatchWins ==
    ck_pc = "returned" =>
        LET m == lower(or_empty(weather_main)) IN
        /\ \A i \in 1..Len(Rules) :
              (RuleMatches(i, m) /\ \A j \in 1..(i - 1) : ~RuleMatches(j, m))
                  => ck_ret = Rules[i][2]
        /\ (\A i \in 1..Len(Rules) : ~RuleMatches(i, m)) => ck_ret = "other"
        /\ (contains(m, kw_rain) /\ ~contains(m, kw_thunder) /\ ~contains(m, kw_drizzle))
              => ck_ret = "rain"
        /\ contains(m, kw_thunder) => ck_ret = "thunderstorm"

\* a label with both "rain" and "cloud" in it has been classified as rain
C1_Witness ==
    /\ ck_pc = "returned"
    /\ ~weather_main.isNone
    /\ contains(lower(weather_main.s), kw_rain)
    /\ contains(lower(weather_main.s), kw_cloud)
    /\ ck_ret = "rain"

\* C2: condition_key returns for every argument, None and the empty label
\* included, and what it returns is one of the eight categories; for None and
\* for the empty label it is other.
C2_Total ==
    ck_pc = "returned" =>
        /\ ck_ret \in ThemeCategory
        /\ (weather_main.isNone \/ weather_main.s = <<>>) => ck_ret = "other"

\* None has been classified
C2_Witness == ck_pc = "returned" /\ weather_main.isNone /\ ck_ret = "other"

-----------------------------------------------------------------------------
(* group_forecast_daily *)

SecondsPerDay == 86400
MaxDays == 5

Min(a, b) == IF a < b THEN a ELSE b
Abs(a) == IF a < 0 THEN -a ELSE a

RECURSIVE Gcd(_, _)
Gcd(a, b) == IF b = 0 THEN a ELSE Gcd(b, a % b)

\* sum(xs)
RECURSIVE sum(_)
sum(xs) == IF xs = <<>> THEN 0 ELSE Head(xs) + sum(Tail(xs))

\* the quotient s / n, n > 0, as a fraction in lowest terms
Frac(s, n) ==
    LET g == Gcd(Abs(s), n) IN [num |-> s \div g, den |-> n \div g]

\* floor division where true division is meant
mean_floor(xs) == [num |-> sum(xs) \div Len(xs), den |-> 1]

\* sum(xs) / len(xs), for a non-empty xs
mean(xs) == Frac(sum(xs), Len(xs))

\* a date that ignores the offset: the UTC date of the timestamp alone
local_date_utc_only(ts, tz) == ts \div SecondsPerDay

\* dt.datetime.utcfromtimestamp(ts + tz).date(), as days since the epoch
local_date(ts, tz) == (ts + tz) \div SecondsPerDay

\* forecast_json.get("list", [])
get_list(fj) == IF fj.hasList THEN fj.list ELSE <<>>

\* forecast_json.get("city", {}).get("timezone", 0)
get_timezone(fj) == IF fj.hasTimezone THEN fj.timezone ELSE 0

\* a dict that is not emptied: what an earlier call left is still in it
new_days_kept(prev) == prev

\* a dict that starts with a bucket nothing was put into
new_days_seeded(prev) ==
    << [date |-> 0, temps |-> <<>>, icons |-> <<>>, mains |-> <<>>, winds |-> <<>>] >>

\* days = {}: a fresh dict, whatever an earlier call (prev) left behind
new_days(prev) == <<>>

\* the position of date's bucket in the dict, 0 when it has none
bucket_index(ds, date) ==
    IF \E i \in 1..Len(ds) : ds[i].date = date
    THEN CHOOSE i \in 1..Len(ds) : ds[i].date = date
    ELSE 0

\* days.setdefault(date, {...}): the dict with a bucket for date, new ones last
setdefault(ds, date) ==
    IF bucket_index(ds, date) # 0 THEN ds
    ELSE Append(ds, [date |-> date, temps |-> <<>>, icons |-> <<>>,
                     mains |-> <<>>, winds |-> <<>>])

\* one iteration of the loop over items: the sample it goes into its date's bucket
put_sample(ds, it, tz) ==
    LET date == local_date(it.dt, tz)
        ds1  == setdefault(ds, date)
        i    == bucket_index(ds1, date)
    IN  [ds1 EXCEPT ![i].temps = Append(@, it.temp),
                    ![i].icons = Append(@, it.icon),
                    ![i].mains = Append(@, it.main),
                    ![i].winds = Append(@, it.wind)]

\* the loop over items
RECURSIVE put_all(_, _, _)
put_all(ds, items, tz) ==
    IF items = <<>> THEN ds
    ELSE put_all(put_sample(ds, Head(items), tz), Tail(items), tz)

\* the items of a sorted sequence with b put in before the first later date
RECURSIVE insert_by_date(_, _)
insert_by_date(sorted, b) ==
    IF sorted = <<>> THEN <<b>>
    ELSE IF b.date < Head(sorted).date THEN <<b>> \o sorted
    ELSE <<Head(sorted)>> \o insert_by_date(Tail(sorted), b)

RECURSIVE sort_by_date(_)
sort_by_date(ds) ==
    IF ds = <<>> THEN <<>>
    ELSE insert_by_date(sort_by_date(Tail(ds)), Head(ds))

\* the dict's items as they were inserted, not sorted
sorted_items_unsorted(ds) == ds

\* sorted(days.items()): the buckets by ascending date (the dates are distinct)
sorted_items(ds) == sort_by_date(ds)

\* the sample before the middle one of an even-sized bucket
middle_earlier(xs) == xs[((Len(xs) - 1) \div 2) + 1]

\* xs[len(xs) // 2], for a non-empty xs
middle(xs) == xs[(Len(xs) \div 2) + 1]

\* the body of the second loop: the summary of one bucket
summary(v) ==
    [date |-> v.date, temp |-> mean(v.temps), icon |-> middle(v.icons),
     main |-> middle(v.mains), wind |-> mean(v.winds)]

\* the second loop; it stops at the first bucket whose mean divides by zero
RECURSIVE summarise(_, _)
summarise(acc, items) ==
    IF items = <<>> THEN [out |-> acc, raised |-> "none"]
    ELSE IF Len(Head(items).temps) = 0 \/ Len(Head(items).winds) = 0
         THEN [out |-> acc, raised |-> "ZeroDivisionError"]
    ELSE summarise(Append(acc, summary(Head(items))), Tail(items))

\* out[:5]
first_five(xs) == SubSeq(xs, 1, Min(MaxDays, Len(xs)))

\* one call: the dict after the first loop, out after the second, what is raised
group_forecast_daily(fj, prev) ==
    LET items == get_list(fj)
        tz    == get_timezone(fj)
        ds    == put_all(new_days(prev), items, tz)
        r     == summarise(<<>>, sorted_items(ds))
    IN  [days |-> ds, out |-> r.out, raised |-> r.raised]

\* 2024-01-01 is day 19723; a timestamp on the day-th day after it
At(day, hour) == (19723 + day) * SecondsPerDay + hour * 3600

Sample(ts, temp, wind, icon, main) ==
    [dt |-> ts, temp |-> temp, wind |-> wind, icon |-> icon, main |-> main]

\* one sample on each of seven days, two of them within two hours of midnight
PoolDays ==
    { Sample(At(0, 12), 10, 3, "01d", "Clear"),
      Sample(At(1, 23), 12, 5, "02n", "Clouds"),
      Sample(At(2, 1),   7, 4, "10n", "Rain"),
      Sample(At(3, 12), -2, 6, "13d", "Snow"),
      Sample(At(4, 12),  0, 2, "50d", "Mist"),
      Sample(At(5, 12),  5, 1, "04d", "Clouds"),
      Sample(At(6, 12),  8, 7, "01d", "Clear") }

\* six samples of one day, the last one an hour before midnight
PoolHours ==
    { Sample(At(0, 3),  10, 3, "01n", "Clear"),
      Sample(At(0, 6),  12, 4, "02d", "Clouds"),
      Sample(At(0, 9),  15, 4, "03d", "Clouds"),
      Sample(At(0, 12), 19, 6, "10d", "Rain"),
      Sample(At(0, 15), 24, 2, "11d", "Thunderstorm"),
      Sample(At(0, 23),  7, 9, "13n", "Snow") }

MaxItems == 6
MaxSameDay == 5
MaxCalls == 2

Range(f) == { f[i] : i \in DOMAIN f }

\* the sequences of n distinct members of S
RECURSIVE Arrangements(_, _)
Arrangements(S, n) ==
    IF n = 0 THEN { <<>> }
    ELSE UNION { { Append(p, x) : x \in S \ Range(p) } : p \in Arrangements(S, n - 1) }

ForecastLists ==
    UNION { Arrangements(PoolDays, n) : n \in 0..MaxItems }
    \cup UNION { Arrangements(PoolHours, n) : n \in 0..MaxSameDay }

\* seconds east of UTC
Timezones == {7200, -7200}

NoPayload == [hasList |-> FALSE, list |-> <<>>, hasTimezone |-> FALSE, timezone |-> 0]

ForecastPayloads ==
    { [hasList |-> TRUE, list |-> l, hasTimezone |-> TRUE, timezone |-> z] :
          l \in ForecastLists, z \in Timezones }
    \cup { [hasList |-> TRUE, list |-> l, hasTimezone |-> FALSE, timezone |-> 0] :
          l \in ForecastLists }
    \cup { NoPayload }

InitAggregate ==
    /\ forecast_json \in ForecastPayloads
    /\ days = <<>> /\ out = <<>> /\ raised = "none" /\ returned = <<>>
    /\ IdleCk /\ IdleConc /\ IdleUi

\* one call of group_forecast_daily(forecast_json), start to return
CallGroupForecastDaily ==
    /\ Len(returned) < MaxCalls
    /\ raised = "none"
    /\ LET r == group_forecast_daily(forecast_json, days) IN
        /\ days' = r.days
        /\ out' = r.out
        /\ raised' = r.raised
        /\ returned' = IF r.raised = "none" THEN Append(returned, first_five(r.out))
                       ELSE returned
    /\ UNCHANGED <<forecast_json, ckVars, concVars, uiVars>>

NextAggregate == CallGroupForecastDaily

SpecAggregate == InitAggregate /\ [][NextAggregate]_vars

(* What the claims about group_forecast_daily speak of, read off the argument *)

ArgItems == IF forecast_json.hasList THEN forecast_json.list ELSE <<>>
ArgOffset == IF forecast_json.hasTimezone THEN forecast_json.timezone ELSE 0

\* floor((dt + timezone) / 86400)
ArgDay(it) == (it.dt + ArgOffset) \div 86400
ArgDates == { ArgDay(ArgItems[i]) : i \in 1..Len(ArgItems) }

\* the samples of the argument on date d, in input order
ArgOn(d) == SelectSeq(ArgItems, LAMBDA it : ArgDay(it) = d)

RECURSIVE TotalTemp(_, _)
TotalTemp(xs, n) == IF n = 0 THEN 0 ELSE xs[n].temp + TotalTemp(xs, n - 1)
RECURSIVE TotalWind(_, _)
TotalWind(xs, n) == IF n = 0 THEN 0 ELSE xs[n].wind + TotalWind(xs, n - 1)

\* the fraction q is the number total / n
IsQuotient(q, total, n) == q.den > 0 /\ q.num * n = q.den * total

\* C3: with k distinct local dates in the argument, a call returns exactly
\* min(k, 5) summaries, never more than 5, with strictly ascending dates, and
\* their dates are the min(k, 5) earliest local dates of the argument.
C3_EarliestFiveAscending ==
    \A c \in 1..Len(returned) :
        LET r == returned[c]
            got == { r[i].date : i \in 1..Len(r) }
        IN  /\ Len(r) <= 5
            /\ Len(r) = Min(Cardinality(ArgDates), 5)
            /\ \A i \in 1..(Len(r) - 1) : r[i].date < r[i + 1].date
            /\ got \subseteq ArgDates
            /\ \A d \in ArgDates \ got : \A e \in got : e < d

\* a call has returned 5 summaries for an argument with more than 5 local
\* dates whose samples are not in date order
C3_Witness ==
    /\ Len(returned) >= 1
    /\ Cardinality(ArgDates) > 5
    /\ Len(returned[1]) = 5
    /\ \E i \in 1..(Len(ArgItems) - 1) : ArgDay(ArgItems[i]) > ArgDay(ArgItems[i + 1])

\* C4: the temperature of every returned summary is the arithmetic mean of the
\* temperatures of all samples of the argument on the summary's date, and its
\* wind the mean of their wind speeds; a non-empty argument with one local date
\* gives one summary with the mean of all temperatures, and a bucket of one
\* sample carries that sample's values.
C4_MeanOfAllSamplesOfTheDate ==
    \A c \in 1..Len(returned) :
        LET r == returned[c] IN
        /\ \A i \in 1..Len(r) :
              LET xs == ArgOn(r[i].date) IN
              /\ Len(xs) >= 1
              /\ IsQuotient(r[i].temp, TotalTemp(xs, Len(xs)), Len(xs))
              /\ IsQuotient(r[i].wind, TotalWind(xs, Len(xs)), Len(xs))
              /\ Len(xs) = 1 => /\ r[i].temp = [num |-> xs[1].temp, den |-> 1]
                                /\ r[i].wind = [num |-> xs[1].wind, den |-> 1]
        /\ (ArgItems # <<>> /\ Cardinality(ArgDates) = 1) =>
              /\ Len(r) = 1
              /\ IsQuotient(r[1].temp, TotalTemp(ArgItems, Len(ArgItems)), Len(ArgItems))

\* a summary has been returned for a date with three samples or more whose mean
\* temperature is not a whole number
C4_Witness ==
    /\ Len(returned) >= 1
    /\ \E i \in 1..Len(returned[1]) :
          /\ Len(ArgOn(returned[1][i].date)) >= 3
          /\ returned[1][i].temp.den > 1

\* C5: the icon and the condition label of every returned summary are those of
\* one sample: the one at index floor(n / 2), counting from 0, among the n samples
\* of the argument on the summary's date in input order.
C5_MiddleSample ==
    \A c \in 1..Len(returned) :
        LET r == returned[c] IN
        \A i \in 1..Len(r) :
            LET xs == ArgOn(r[i].date)
                k  == (Len(xs) \div 2) + 1
            IN  r[i].icon = xs[k].icon /\ r[i].main = xs[k].main

\* a summary has been returned for a date with four samples, where the two
\* middle samples differ
C5_Witness ==
    /\ Len(returned) >= 1
    /\ \E i \in 1..Len(returned[1]) :
          LET xs == ArgOn(returned[1][i].date) IN
          /\ Len(xs) = 4
          /\ xs[2].icon # xs[3].icon
          /\ returned[1][i].icon = xs[3].icon

\* C6: no call raises, every bucket of the dict holds at least one sample, so no
\* mean divides by zero, and a call with an empty list or with no list returns
\* the empty sequence.
C6_EmptyInEmptyOut ==
    /\ raised = "none"
    /\ \A i \in 1..Len(days) :
          Len(days[i].temps) >= 1 /\ Len(days[i].winds) >= 1
          /\ Len(days[i].icons) >= 1 /\ Len(days[i].mains) >= 1
    /\ ArgItems = <<>> => \A c \in 1..Len(returned) : returned[c] = <<>>

\* a call with a payload that has no list has returned the empty sequence
C6_Witness ==
    /\ ~forecast_json.hasList
    /\ Len(returned) >= 1
    /\ returned[1] = <<>>

\* C7: every later call with the same argument returns what the first call
\* returned.
C7_SecondCallSameResult ==
    \A c \in 1..Len(returned) : returned[c] = returned[1]

\* two calls have returned, with a bucket of more than one sample
C7_Witness ==
    /\ Len(returned) >= 2
    /\ Len(returned[2]) >= 2
    /\ \E i \in 1..Len(days) : Len(days[i].temps) >= 2

\* C9: after the first loop the dict has one bucket for each value of
\* floor((dt + timezone) / 86400) among the samples, the offset being 0 when the
\* payload has none, and the bucket of a value holds the temperatures, icons,
\* labels and winds of exactly the samples with that value, in input order.
C9_BucketsByShiftedDay ==
    Len(returned) >= 1 =>
        /\ { days[i].date : i \in 1..Len(days) } = ArgDates
        /\ \A i, j \in 1..Len(days) : days[i].date = days[j].date => i = j
        /\ \A i \in 1..Len(days) :
              LET xs == ArgOn(days[i].date) IN
              /\ days[i].temps = [k \in 1..Len(xs) |-> xs[k].temp]
              /\ days[i].icons = [k \in 1..Len(xs) |-> xs[k].icon]
              /\ days[i].mains = [k \in 1..Len(xs) |-> xs[k].main]
              /\ days[i].winds = [k \in 1..Len(xs) |-> xs[k].wind]

\* under a positive offset a sample taken before UTC midnight is in the bucket
\* of the next day, after an earlier-listed sample of that day
C9_Witness ==
    /\ Len(returned) >= 1
    /\ forecast_json.hasTimezone /\ forecast_json.timezone > 0
    /\ \E k \in 2..Len(ArgItems) :
          LET it == ArgItems[k] IN
          /\ it.dt \div 86400 < ArgDay(it)
          /\ \E i \in 1..Len(days) :
                /\ days[i].date = (it.dt \div 86400) + 1
                /\ Len(days[i].temps) = 2
                /\ days[i].temps[2] = it.temp

-----------------------------------------------------------------------------
(* Concurrent calls: threads that call condition_key(weather_main) or         *)
(* group_forecast_daily(forecast_json) on the same two objects, one           *)
(* statement of the loops at a time                                           *)

NumThreads == 2
MaxConcItems == 2

Threads == 1..NumThreads

PoolConc ==
    { Sample(At(0, 9),  10, 3, "01d", "Clear"),
      Sample(At(0, 23), 15, 4, "10n", "Rain"),
      Sample(At(1, 1),   7, 6, "13n", "Snow") }

ConcPayloads ==
    { [hasList |-> TRUE, list |-> l, hasTimezone |-> z # 0, timezone |-> z] :
          l \in UNION { Arrangements(PoolConc, n) : n \in 0..MaxConcItems },
          z \in {0, 7200} }

ConcLabels ==
    { NoneStr, Str(<<"R","a","i","n">>), Str(<<"C","l","o","u","d","s">>) }

\* one dict for all calls, as a module-level days would be
days_owner_shared(t) == 1

\* days is a local of the call: each call has its own dict
days_owner(t) == t

InitConcurrent ==
    /\ forecast_json \in ConcPayloads
    /\ weather_main \in ConcLabels
    /\ ttask \in [Threads -> {"group_forecast_daily", "condition_key"}]
    /\ tpc = [t \in Threads |-> "call"]
    /\ ti = [t \in Threads |-> 0]
    /\ tdays = [t \in Threads |-> <<>>]
    /\ tkeys = [t \in Threads |-> <<>>]
    /\ tout = [t \in Threads |-> <<>>]
    /\ tret = [t \in Threads |-> [kind |-> "none", value |-> <<>>]]
    /\ ck_pc = "idle" /\ ck_ret = "none"
    /\ days = <<>> /\ out = <<>> /\ raised = "none" /\ returned = <<>>
    /\ IdleUi

concFixed == <<forecast_json, weather_main, ttask, ck_pc, ck_ret,
               days, out, raised, returned, uiVars>>

\* condition_key, whole: it reads an immutable string and binds one local
ConcConditionKey(t) ==
    /\ ttask[t] = "condition_key" /\ tpc[t] = "call"
    /\ tret' = [tret EXCEPT ![t] = [kind |-> "value", value |-> condition_key(weather_main)]]
    /\ tpc' = [tpc EXCEPT ![t] = "done"]
    /\ UNCHANGED <<ti, tdays, tkeys, tout, concFixed>>

\* items, tz and days are bound
ConcBegin(t) ==
    /\ ttask[t] = "group_forecast_daily" /\ tpc[t] = "call"
    /\ tdays' = [tdays EXCEPT ![days_owner(t)] = new_days(@)]
    /\ ti' = [ti EXCEPT ![t] = 0]
    /\ tpc' = [tpc EXCEPT ![t] = "bucket"]
    /\ UNCHANGED <<tkeys, tout, tret, concFixed>>

\* one iteration of `for it in items`
ConcPut(t) ==
    /\ tpc[t] = "bucket"
    /\ ti[t] < Len(get_list(forecast_json))
    /\ tdays' = [tdays EXCEPT ![days_owner(t)] =
                    put_sample(@, get_list(forecast_json)[ti[t] + 1],
                               get_timezone(forecast_json))]
    /\ ti' = [ti EXCEPT ![t] = @ + 1]
    /\ UNCHANGED <<tpc, tkeys, tout, tret, concFixed>>

\* the first loop is over: out = [] and sorted(days.items()) is evaluated
ConcSort(t) ==
    /\ tpc[t] = "bucket"
    /\ ti[t] = Len(get_list(forecast_json))
    /\ tkeys' = [tkeys EXCEPT ![t] =
                    LET ss == sorted_items(tdays[days_owner(t)]) IN
                    [k \in 1..Len(ss) |-> ss[k].date]]
    /\ tout' = [tout EXCEPT ![t] = <<>>]
    /\ ti' = [ti EXCEPT ![t] = 0]
    /\ tpc' = [tpc EXCEPT ![t] = "summarise"]
    /\ UNCHANGED <<tdays, tret, concFixed>>

\* one iteration of `for d, v in sorted(...)`: v is the bucket the dict holds now
ConcSummarise(t) ==
    /\ tpc[t] = "summarise"
    /\ ti[t] < Len(tkeys[t])
    /\ LET ds == tdays[days_owner(t)]
           i  == bucket_index(ds, tkeys[t][ti[t] + 1])
       IN  IF i = 0 \/ Len(ds[i].temps) = 0 \/ Len(ds[i].winds) = 0
           THEN /\ tpc' = [tpc EXCEPT ![t] = "done"]
                /\ tret' = [tret EXCEPT ![t] = [kind |-> "ZeroDivisionError", value |-> <<>>]]
                /\ UNCHANGED <<ti, tout>>
           ELSE /\ tout' = [tout EXCEPT ![t] = Append(@, summary(ds[i]))]
                /\ ti' = [ti EXCEPT ![t] = @ + 1]
                /\ UNCHANGED <<tpc, tret>>
    /\ UNCHANGED <<tdays, tkeys, concFixed>>

\* return out[:5]
ConcReturn(t) ==
    /\ tpc[t] = "summarise"
    /\ ti[t] = Len(tkeys[t])
    /\ tret' = [tret EXCEPT ![t] = [kind |-> "value", value |-> first_five(tout[t])]]
    /\ tpc' = [tpc EXCEPT ![t] = "done"]
    /\ UNCHANGED <<ti, tdays, tkeys, tout, concFixed>>

NextConcurrent ==
    \E t \in Threads :
        \/ ConcConditionKey(t)
        \/ ConcBegin(t)
        \/ ConcPut(t)
        \/ ConcSort(t)
        \/ ConcSummarise(t)
        \/ ConcReturn(t)

SpecConcurrent == InitConcurrent /\ [][NextConcurrent]_vars

\* what a call of thread t's function returns when it runs alone
AloneResult(t) ==
    IF ttask[t] = "condition_key"
    THEN [kind |-> "value", value |-> condition_key(weather_main)]
    ELSE [kind |-> "value",
          value |-> first_five(group_forecast_daily(forecast_json, <<>>).out)]

\* C8: whatever the interleaving of the statements of the concurrent calls,
\* every call that has returned has returned what it returns when run alone,
\* and no step of any call changes the payload or the label passed in.
C8_ConcurrentCallsAsAlone ==
    /\ [](\A t \in DOMAIN tpc : tpc[t] = "done" => tret[t] = AloneResult(t))
    /\ [][forecast_json' = forecast_json /\ weather_main' = weather_main]_vars

\* two calls of group_forecast_daily on a payload with two samples of one
\* local date have both returned
C8_Witness ==
    /\ \E t, u \in DOMAIN tpc :
          /\ t # u
          /\ ttask[t] = "group_forecast_daily" /\ ttask[u] = "group_forecast_daily"
          /\ tpc[t] = "done" /\ tpc[u] = "done"
          /\ \E i \in 1..Len(tdays[t]) : Len(tdays[t][i].temps) = 2
          /\ Len(tdays[u]) >= 1

-----------------------------------------------------------------------------
(* The script's main logic, one run.  weather_main is the label the provider *)
(* answers in current["weather"][0]["main"], forecast_json the payload it    *)
(* answers to /forecast; responses says which of the two requests succeed.   *)

Show(kind, text) == [kind |-> kind, text |-> text]

InitScript ==
    /\ upc = "start"
    /\ go \in BOOLEAN
    /\ OWM_API_KEY \in { NoneStr, Str(<<>>), Str(<<"k","e","y">>) }
    /\ ok = "unset"
    /\ requests = <<>>
    /\ responses \in [weather_ok : BOOLEAN, forecast_ok : BOOLEAN]
    /\ fetched = {}
    /\ rendered = <<>>
    /\ weather_main \in ConcLabels
    /\ forecast_json \in ConcPayloads
    /\ ck_pc = "idle" /\ ck_ret = "none"
    /\ days = <<>> /\ out = <<>> /\ raised = "none" /\ returned = <<>>
    /\ IdleConc

scriptFixed == <<go, OWM_API_KEY, responses, weather_main, forecast_json, concVars>>

\* `if go and not OWM_API_KEY`: st.error and st.stop
KeyMissing ==
    /\ upc = "start"
    /\ go /\ falsy(OWM_API_KEY)
    /\ rendered' = Append(rendered, Show("error", "Missing OWM_API_KEY"))
    /\ upc' = "stopped"
    /\ UNCHANGED <<ok, requests, fetched, ck_pc, ck_ret, days, out, raised, returned,
                   scriptFixed>>

\* the else branch of `if go`: st.info
NotPressed ==
    /\ upc = "start"
    /\ ~go
    /\ rendered' = Append(rendered, Show("info", "Enter a city"))
    /\ upc' = "end"
    /\ UNCHANGED <<ok, requests, fetched, ck_pc, ck_ret, days, out, raised, returned,
                   scriptFixed>>

\* `if go`: ok = True, and the try block is entered
EnterTry ==
    /\ upc = "start"
    /\ go /\ ~falsy(OWM_API_KEY)
    /\ ok' = "True"
    /\ upc' = "get_current_weather"
    /\ UNCHANGED <<requests, fetched, rendered, ck_pc, ck_ret, days, out, raised,
                   returned, scriptFixed>>

\* current = get_current_weather(city, units=units): the request, then
\* raise_for_status and json, any of which may raise
GetCurrentWeather ==
    /\ upc = "get_current_weather"
    /\ requests' = Append(requests, "weather")
    /\ IF responses.weather_ok
       THEN fetched' = fetched \cup {"current"} /\ upc' = "get_forecast"
       ELSE fetched' = fetched /\ upc' = "except"
    /\ UNCHANGED <<ok, rendered, ck_pc, ck_ret, days, out, raised, returned, scriptFixed>>

\* forecast = get_forecast(city, units=units)
GetForecast ==
    /\ upc = "get_forecast"
    /\ requests' = Append(requests, "forecast")
    /\ IF responses.forecast_ok
       THEN fetched' = fetched \cup {"forecast"} /\ upc' = "status"
       ELSE fetched' = fetched /\ upc' = "except"
    /\ UNCHANGED <<ok, rendered, ck_pc, ck_ret, days, out, raised, returned, scriptFixed>>

\* an except block that reports the error and lets the script go on
HandleExceptionNoStop ==
    /\ upc = "except"
    /\ ok' = "False"
    /\ rendered' = Append(rendered, Show("error", "Error fetching data"))
    /\ upc' = "status"
    /\ UNCHANGED <<requests, fetched, ck_pc, ck_ret, days, out, raised, returned,
                   scriptFixed>>

\* except Exception: ok = False, st.error, logging.error, st.stop
HandleException ==
    /\ upc = "except"
    /\ ok' = "False"
    /\ rendered' = Append(rendered, Show("error", "Error fetching data"))
    /\ upc' = "stopped"
    /\ UNCHANGED <<requests, fetched, ck_pc, ck_ret, days, out, raised, returned,
                   scriptFixed>>

\* the sidebar line "API status": OK if ok else DOWN
RenderStatus ==
    /\ upc = "status"
    /\ rendered' = Append(rendered, Show("status", IF ok = "True" THEN "OK" ELSE "DOWN"))
    /\ upc' = "theme"
    /\ UNCHANGED <<ok, requests, fetched, ck_pc, ck_ret, days, out, raised, returned,
                   scriptFixed>>

\* main = current[...]; theme = condition_key(main); the background is rendered.
\* Reading current when it was never bound is a NameError.
RenderTheme ==
    /\ upc = "theme"
    /\ IF "current" \in fetched
       THEN /\ ck_ret' = condition_key(weather_main)
            /\ rendered' = Append(rendered, Show("theme", condition_key(weather_main)))
            /\ upc' = "cards"
       ELSE /\ upc' = "NameError"
            /\ UNCHANGED <<ck_ret, rendered>>
    /\ UNCHANGED <<ok, requests, fetched, ck_pc, days, out, raised, returned, scriptFixed>>

\* the three cards of the current section
RenderCurrent ==
    /\ upc = "cards"
    /\ rendered' = Append(rendered, Show("current", "cards"))
    /\ upc' = "forecast"
    /\ UNCHANGED <<ok, requests, fetched, ck_pc, ck_ret, days, out, raised, returned,
                   scriptFixed>>

\* the heading, daily = group_forecast_daily(forecast) and the day cards
\* (what st.columns does with an empty daily is the library's and is left out)
RenderForecast ==
    /\ upc = "forecast"
    /\ IF "forecast" \in fetched
       THEN LET r == group_forecast_daily(forecast_json, days) IN
            /\ days' = r.days /\ out' = r.out /\ raised' = r.raised
            /\ returned' = Append(returned, first_five(r.out))
            /\ rendered' = rendered \o << Show("heading", "5-Day Forecast"),
                                          Show("forecast", "day cards") >>
            /\ upc' = "end"
       ELSE /\ rendered' = Append(rendered, Show("heading", "5-Day Forecast"))
            /\ upc' = "NameError"
            /\ UNCHANGED <<days, out, raised, returned>>
    /\ UNCHANGED <<ok, requests, fetched, ck_pc, ck_ret, scriptFixed>>

NextScript ==
    \/ KeyMissing
    \/ NotPressed
    \/ EnterTry
    \/ GetCurrentWeather
    \/ GetForecast
    \/ HandleException
    \/ RenderStatus
    \/ RenderTheme
    \/ RenderCurrent
    \/ RenderForecast

SpecScript == InitScript /\ [][NextScript]_vars

Kinds(kinds) == { i \in 1..Len(rendered) : rendered[i].kind \in kinds }

\* C10: in a run with the button pressed, no request is made when the key is
\* missing; the forecast request is made only after the current-weather request
\* has succeeded; the status line, the theme, the current cards and the forecast
\* strip are on the page only if both requests have succeeded; a failed request
\* puts an error on the page and stops the run; ok is true where it is read, so
\* the status line never says DOWN.
C10_RenderOnlyAfterBothRequests ==
    /\ (go /\ falsy(OWM_API_KEY)) => requests = <<>>
    /\ requests \in { <<>>, <<"weather">>, <<"weather", "forecast">> }
    /\ Len(requests) = 2 => (responses.weather_ok /\ "current" \in fetched)
    /\ Kinds({"status", "theme", "current", "heading", "forecast"}) # {} =>
          /\ requests = <<"weather", "forecast">>
          /\ responses.weather_ok /\ responses.forecast_ok
          /\ fetched = {"current", "forecast"}
    /\ \A i \in Kinds({"status"}) : rendered[i].text = "OK"
    /\ upc = "status" => ok = "True"
    /\ (ok = "False" /\ upc # "except") =>
          /\ upc = "stopped"
          /\ rendered = << Show("error", "Error fetching data") >>
    /\ (upc \in {"stopped", "end"} /\ requests # <<>>
            /\ ~(responses.weather_ok /\ responses.forecast_ok)) => ok = "False"
    /\ upc # "NameError"

\* a run in which both requests succeeded has rendered the status line, the
\* theme, the cards and a forecast strip of two days
C10_Witness ==
    /\ upc = "end"
    /\ go
    /\ requests = <<"weather", "forecast">>
    /\ Kinds({"status"}) # {} /\ Kinds({"theme"}) # {} /\ Kinds({"current"}) # {}
    /\ Kinds({"forecast"}) # {}
    /\ Len(returned) = 1 /\ Len(returned[1]) = 2

=============================================================================
